---- MODULE Spec2Model ----
(***************************************************************************)
(* SizzyBot (src/main.py): the interactive command loop, the cosmetic      *)
(* name -> identifier resolution against the catalog service, and the      *)
(* dispatch of the resolved identifier to the party/session object.        *)
(*                                                                         *)
(* The coroutines are cut at their suspension points (input(), every       *)
(* await); each action is the synchronous code between two of them.  The   *)
(* rebootpy session object, the catalog service and the console are the    *)
(* environment: their answers are drawn with \E.                           *)
(***************************************************************************)
EXTENDS Integers, Sequences, FiniteSets, TLC

\* ------------------------------------------------------------------ bounds
\* Longest "data" array of a catalog response.
MaxData == 2

\* Most equip commands followed in one run (caps the two counters).
MaxEquips == 2

\* --------------------------------------------------------- optional values
\* Python's None and a present value are told apart: None is <<>>, a value
\* v is <<v>>.
None == <<>>

Some(v) == <<v>>

\* "is not None" in place of truthiness.
TruthyNotNone(v) == v # None

\* Python truthiness of an Optional[str]: None and "" are falsy.
Truthy(v) == v # None /\ v[1] # ""

\* ------------------------------------------------------- cosmetic registry
COSMETIC_TYPES ==
  [outfit   |-> [api_type |-> "AthenaCharacter", method |-> "set_outfit"],
   emote    |-> [api_type |-> "AthenaDance",     method |-> "set_emote"],
   backpack |-> [api_type |-> "AthenaBackpack",  method |-> "set_backpack"],
   pickaxe  |-> [api_type |-> "AthenaPickaxe",   method |-> "set_pickaxe"]]

\* Category strings a caller may pass: the four keys and two strangers.
Categories == DOMAIN COSMETIC_TYPES \cup {"glider", ""}

\* ------------------------------------------------------------ input lines
\* A console line is a sequence of characters.  Whitespace and punctuation
\* are single characters; a run of letters is kept as one unit.
Space == " "

Tab == "\t"

IsSpace(c) == c \in {Space, Tab}

\* str.lower() on one unit.
LowerUnit(c) ==
  CASE c = "OUTFIT"   -> "outfit"
    [] c = "Exit"     -> "exit"
    [] c = "Leave"    -> "leave"
    [] c = "Renegade" -> "renegade"
    [] c = "Raider"   -> "raider"
    [] OTHER          -> c

\* Lines the console may deliver.
Lines ==
  { <<>>,
    <<Space, Space, Space>>,
    <<"!">>,
    <<"!", Space, Tab>>,
    <<"hello">>,
    <<"?", "outfit", Space, "Renegade">>,
    <<"!", "outfit", Space, "Renegade", Space, "Raider">>,
    <<Space, "!", "OUTFIT", Space, Space, "Renegade", Tab, "Raider", Space>>,
    <<"!", "outfit">>,
    <<"!", "emote", Space, "Floss">>,
    <<"!", "backpack", Space, "Raider">>,
    <<"!", "pickaxe", Space, "Reaper">>,
    <<"!", "glider", Space, "Raider">>,
    <<"!", "join", Space, "ghost_user">>,
    <<"!", "join", Space, "Renegade", Space, "Raider">>,
    <<"!", "leave">>,
    <<"!", "Leave", Space, "hello">>,
    <<"!", "exit">>,
    <<"!", "Exit", Space, "hello">>,
    <<"!", "help">>,
    <<"!", Space, "help">>,
    <<"!", "!", "help">>,
    <<"!", "clear">>,
    <<"!", "cls">>,
    <<"!", "dance">> }

RECURSIVE LStrip(_)
LStrip(s) == IF s # <<>> /\ IsSpace(Head(s)) THEN LStrip(Tail(s)) ELSE s

RECURSIVE RStrip(_)
RStrip(s) ==
  IF s # <<>> /\ IsSpace(s[Len(s)]) THEN RStrip(SubSeq(s, 1, Len(s) - 1)) ELSE s

\* str.strip()
Strip(s) == RStrip(LStrip(s))

\* Line 165 without the test of the first character.
StartsWithAnything(s, c) == s # <<>>

\* str.startswith(c) for a one-character c
StartsWith(s, c) == s # <<>> /\ Head(s) = c

\* str.split(): the words between runs of whitespace, each word the
\* sequence of its characters.
RECURSIVE SplitFrom(_, _, _)
SplitFrom(s, word, acc) ==
  IF s = <<>>
  THEN IF word = <<>> THEN acc ELSE Append(acc, word)
  ELSE IF IsSpace(Head(s))
       THEN SplitFrom(Tail(s), <<>>, IF word = <<>> THEN acc ELSE Append(acc, word))
       ELSE SplitFrom(Tail(s), Append(word, Head(s)), acc)

Split(s) == SplitFrom(s, <<>>, <<>>)

\* The string a sequence of characters spells.
RECURSIVE Text(_)
Text(w) == IF w = <<>> THEN "" ELSE Head(w) \o Text(Tail(w))

\* str.lower() of a word, as a string.
RECURSIVE Lower(_)
Lower(w) == IF w = <<>> THEN "" ELSE LowerUnit(Head(w)) \o Lower(Tail(w))

\* ' '.join(words)
RECURSIVE JoinSpace(_)
JoinSpace(ws) ==
  IF ws = <<>> THEN ""
  ELSE IF Len(ws) = 1 THEN Text(ws[1])
  ELSE Text(ws[1]) \o " " \o JoinSpace(Tail(ws))

\* ------------------------------------------------------- catalog responses
HTTP_OK == 200

\* Statuses other than 200 the service may answer with.
ErrorStatuses == {404, 500}

\* Values the "id" field of a result may hold ("" included).
Ids == {"A1", "B2", ""}

\* One element of the "data" array: with an "id" field (a string or JSON
\* null) or without one.
Elems ==
  {[hasId |-> FALSE, id |-> None]} \cup
  {[hasId |-> TRUE, id |-> v] : v \in {None} \cup {Some(i) : i \in Ids}}

DataArrays == UNION {[1..n -> Elems] : n \in 0..MaxData}

\* A response body: not decodable as JSON, a JSON object without "data",
\* or a JSON object with a "data" array.
Bodies ==
  {[decodable |-> FALSE, hasData |-> FALSE, data |-> <<>>],
   [decodable |-> TRUE,  hasData |-> FALSE, data |-> <<>>]} \cup
  {[decodable |-> TRUE, hasData |-> TRUE, data |-> d] : d \in DataArrays}

\* What session.get() yields: a transport failure, or a status and a body.
Responses ==
  {[transport |-> FALSE, status |-> HTTP_OK, body |-> b] : b \in Bodies} \cup
  {[transport |-> FALSE, status |-> st,
    body |-> [decodable |-> TRUE, hasData |-> FALSE, data |-> <<>>]] :
      st \in ErrorStatuses} \cup
  {[transport |-> TRUE, status |-> 0,
    body |-> [decodable |-> FALSE, hasData |-> FALSE, data |-> <<>>]]}

\* Outcome of a piece of code: a returned value or a raised exception
\* (raised = "" when none).
Returned(v) == [raised |-> "", value |-> v]

Raised(e) == [raised |-> e, value |-> None]

\* ------------------------------------------- CosmeticsService.find_cosmetic_id
\* Line 129: the registry membership test.
IsCosmeticTypeAlways(cosmetic_type_) == TRUE

IsCosmeticType(cosmetic_type_) == cosmetic_type_ \in DOMAIN COSMETIC_TYPES

\* Lines 76-79: the query parameters; the registry subscript raises
\* KeyError for a category that is not a key.
FindCosmeticParams(item_name_, item_type_) ==
  IF item_type_ \in DOMAIN COSMETIC_TYPES
  THEN [raised |-> "", name |-> item_name_,
        backendType |-> COSMETIC_TYPES[item_type_].api_type]
  ELSE [raised |-> "KeyError", name |-> item_name_, backendType |-> ""]

\* Line 85 with a wrong subscript: the last element instead of the first.
FirstResultIdLast(data) ==
  IF Len(data) = 0 THEN Raised("IndexError")
  ELSE IF ~data[Len(data)].hasId THEN Raised("KeyError")
  ELSE Returned(data[Len(data)].id)

\* Line 85: data['data'][0]['id'] on the decoded "data" array.
FirstResultId(data) ==
  IF Len(data) = 0 THEN Raised("IndexError")
  ELSE IF ~data[1].hasId THEN Raised("KeyError")
  ELSE Returned(data[1].id)

\* Lines 82-85: the body of the try block.
FindCosmeticTry(resp) ==
  IF resp.transport THEN Raised("ClientError")
  ELSE IF resp.status = HTTP_OK
       THEN IF ~resp.body.decodable THEN Raised("ContentTypeError")
            ELSE IF ~resp.body.hasData THEN Raised("KeyError")
            ELSE FirstResultId(resp.body.data)
       ELSE Returned(None)

\* Exceptions that derive from BaseException but not from Exception.
BaseOnly == {"KeyboardInterrupt", "SystemExit"}

\* What an "except Exception" clause catches.
IsException(e) == e \notin BaseOnly

\* An except clause that only covers transport errors.
CaughtTransportOnly(e) == e = "ClientError"

\* Line 86: "except Exception".
Caught(e) == IsException(e)

\* Lines 81-88: the try/except; logged tells whether line 87 ran.
FindCosmeticResult(resp) ==
  LET r == FindCosmeticTry(resp) IN
    IF r.raised = "" THEN [raised |-> "", value |-> r.value, logged |-> ""]
    ELSE IF Caught(r.raised)
         THEN [raised |-> "", value |-> None, logged |-> r.raised]
         ELSE [raised |-> r.raised, value |-> None, logged |-> ""]

\* ------------------------------------------------------------------ state
VARIABLES
  pc,                \* where the program is (see PcValues)
  caller,            \* "loop": a handler runs under command_interface;
                     \* "direct": it was called on its own
  party,             \* truth value of bot_instance.party
  command_prefix,    \* settings.command_prefix ("" before the load)
  bot_instance,      \* TRUE once commands.Bot(...) has been constructed
  config_file,       \* what config.json holds when the program starts
  raw_line,          \* what input() returned in the current iteration (None
                     \* while it has not returned)
  user_input,        \* the stripped line of the current iteration
  cosmetic_type,     \* handle_cosmetic_command's parameters and local
  item_name,
  cosmetic_id,
  party_at_entry,    \* bot_instance.party when the handler was entered
  inflight,          \* awaited calls that have not completed yet
  nEquip,            \* calls of find_cosmetic_id so far
  nRequests,         \* requests sent to the catalog service so far
  response,          \* the catalog's answer to the current query (None if none)
  username,          \* handle_party_join's parameter and locals
  user_profile,
  friend_connection,
  out,               \* messages logged or printed in the current iteration
  calls,             \* calls made to collaborators in the current iteration
  loopExit,          \* how command_interface was left ("" while it runs)
  error              \* the exception raised last in the current iteration

vars == <<pc, caller, party, command_prefix, bot_instance, user_input,
          cosmetic_type, item_name, cosmetic_id, username, user_profile,
          friend_connection, out, calls, loopExit, error, response,
          config_file, raw_line, party_at_entry, inflight, nEquip, nRequests>>

equipLocals == <<cosmetic_type, item_name, cosmetic_id, response, party_at_entry>>

joinLocals == <<username, user_profile, friend_connection>>

startup == <<command_prefix, bot_instance, config_file>>

counters == <<nEquip, nRequests>>

\* Positions at which a coroutine is suspended on a collaborator.
Awaiting == {"resolving", "mutating", "fetching", "joining", "leaving"}

Msg(kind, text) == [kind |-> kind, text |-> text]

Call(op, arg, arg2) == [op |-> op, arg |-> arg, arg2 |-> arg2]

\* Names of the session mutators.
Mutators == {COSMETIC_TYPES[c].method : c \in DOMAIN COSMETIC_TYPES}

\* Calls that act on the session.
SessionOps == Mutators \cup {"join_party", "leave"}

OpsIn(cs) == {cs[i].op : i \in 1..Len(cs)}

KindsIn(o) == {o[i].kind : i \in 1..Len(o)}

\* An await that does not wait: the call is started and the caller goes on.
SuspendDetached(p) == IF caller = "loop" THEN "guard" ELSE "handler_returned"

\* "await": the coroutine stays at p until the awaited call completes.
Suspend(p) == p

\* The code runs on to position p, having logged o and made the calls c.
\* Run from an await, the awaited call has completed (or was abandoned);
\* run to an await, the last call of c is the one awaited.
Goto(p, o, c) ==
  /\ pc' = IF p \in Awaiting THEN Suspend(p) ELSE p
  /\ out' = o
  /\ calls' = c
  /\ inflight' =
       LET rest == IF pc \in Awaiting /\ inflight # <<>> THEN Tail(inflight) ELSE inflight
       IN IF p \in Awaiting THEN Append(rest, c[Len(c)]) ELSE rest

\* A handler returns normally to its caller: under the loop the iteration
\* ends and control is back at line 159.
Return(o, c) ==
  /\ IF caller = "loop" THEN Goto("guard", o, c) ELSE Goto("handler_returned", o, c)
  /\ UNCHANGED <<loopExit, error>>

\* Lines 196-200 with the two clauses in the wrong roles.
LoopHandlerNoReport(e) ==
  IF e = "KeyboardInterrupt" THEN "shutdown" ELSE "none"

LoopHandlerCatchAll(e) ==
  IF e = "KeyboardInterrupt" THEN "shutdown" ELSE "report"

LoopHandlerNoInterrupt(e) ==
  IF IsException(e) THEN "report" ELSE "none"

\* Lines 196-200: the except clause of command_interface that takes an
\* exception raised in the try block: "shutdown" (196-198), "report"
\* (199-200), or "none" (it leaves command_interface).
LoopHandler(e) ==
  IF e = "KeyboardInterrupt" THEN "shutdown"
  ELSE IF IsException(e) THEN "report"
  ELSE "none"

\* The loop starting over after it was left.
AfterLoopRestart == "guard"

\* Lines 159, 198 and 230: leaving the while loop ends command_interface,
\* the last statement of on_ready; nothing calls it again.
AfterLoop == "returned"

\* An exception leaves a handler (or is raised by the loop body itself).
Throw(e, o, c) ==
  /\ error' = e
  /\ IF caller = "loop"
     THEN IF LoopHandler(e) = "report"
          THEN Goto("guard", Append(o, Msg("CommandError", e)), c) /\ UNCHANGED loopExit
          ELSE IF LoopHandler(e) = "shutdown"
          THEN Goto(AfterLoop, Append(o, Msg("Shutdown", "")), c) /\ loopExit' = e
          ELSE Goto("terminated", o, c) /\ loopExit' = e
     ELSE Goto("handler_raised", o, c) /\ UNCHANGED loopExit

\* A handler returns normally after it caught and logged exception e.
ReturnCaught(e, o, c) ==
  /\ IF caller = "loop" THEN Goto("guard", o, c) ELSE Goto("handler_returned", o, c)
  /\ error' = e
  /\ UNCHANGED loopExit

ResetEquip ==
  /\ cosmetic_type' = "" /\ item_name' = "" /\ cosmetic_id' = None
  /\ response' = None /\ party_at_entry' = FALSE

ResetJoin == username' = "" /\ user_profile' = None /\ friend_connection' = None

\* ---------------------------------------------------------------- startup
ConfigFiles ==
  {[exists |-> FALSE, json |-> FALSE, valid |-> FALSE, prefix |-> ""],
   [exists |-> TRUE,  json |-> FALSE, valid |-> FALSE, prefix |-> ""],
   [exists |-> TRUE,  json |-> TRUE,  valid |-> FALSE, prefix |-> ""],
   [exists |-> TRUE,  json |-> TRUE,  valid |-> TRUE,  prefix |-> "!"],
   [exists |-> TRUE,  json |-> TRUE,  valid |-> TRUE,  prefix |-> "?"]}

\* load_configuration falling back to default settings instead of raising.
LoadConfigurationDefault(cfg) ==
  IF cfg.exists /\ cfg.json /\ cfg.valid THEN Returned(Some(cfg.prefix))
  ELSE Returned(Some("!"))

\* Config.load_configuration
LoadConfiguration(cfg) ==
  IF ~cfg.exists THEN Raised("FileNotFoundError")
  ELSE IF ~cfg.json THEN Raised("ValueError")
  ELSE IF ~cfg.valid THEN Raised("ValueError")
  ELSE Returned(Some(cfg.prefix))

Init ==
  /\ pc = "start"
  /\ caller = "loop"
  /\ party = FALSE
  /\ command_prefix = ""
  /\ bot_instance = FALSE
  /\ config_file \in ConfigFiles
  /\ raw_line = None
  /\ user_input = <<>>
  /\ cosmetic_type = "" /\ item_name = "" /\ cosmetic_id = None
  /\ party_at_entry = FALSE
  /\ inflight = <<>>
  /\ nEquip = 0 /\ nRequests = 0
  /\ username = "" /\ user_profile = None /\ friend_connection = None
  /\ out = <<>>
  /\ calls = <<>>
  /\ loopExit = ""
  /\ error = ""
  /\ response = None

\* SizzyBot.__init__: the configuration is loaded before the bot is built;
\* an exception of the load leaves the constructor and ends the process.
Construct(cfg) ==
  /\ pc = "start"
  /\ LET r == LoadConfiguration(cfg) IN
       IF r.raised # ""
       THEN /\ pc' = "crashed"
            /\ out' = <<Msg("Traceback", r.raised)>>
            /\ UNCHANGED startup
       ELSE /\ pc' = "constructed"
            /\ command_prefix' = r.value[1]
            /\ bot_instance' = TRUE
            /\ UNCHANGED <<out, config_file>>
  /\ UNCHANGED <<inflight, counters, caller, party, raw_line, user_input, equipLocals, joinLocals, calls, loopExit, error>>

\* launch entering the command loop itself, without waiting for the ready
\* event.
LaunchNoWait(ok) ==
  /\ pc = "constructed"
  /\ IF ok THEN pc' = "guard" /\ UNCHANGED out
     ELSE pc' = "run_failed" /\ out' = <<Msg("StartupFailed", "")>>
  /\ UNCHANGED <<inflight, counters, caller, party, startup, raw_line, user_input,
                 equipLocals, joinLocals, calls, loopExit, error>>

\* SizzyBot.launch: bot.run() either fails (logged at line 240) or runs.
Launch(ok) ==
  /\ pc = "constructed"
  /\ IF ok THEN pc' = "running" /\ UNCHANGED out
     ELSE pc' = "run_failed" /\ out' = <<Msg("StartupFailed", "")>>
  /\ UNCHANGED <<inflight, counters, caller, party, startup, raw_line, user_input, equipLocals, joinLocals,
                 calls, loopExit, error>>

\* event_ready -> on_ready: banner, then command_interface is entered.
EventReady(p) ==
  /\ pc = "running"
  /\ pc' = "guard"
  /\ party' = p
  /\ out' = <<Msg("Online", "")>>
  /\ calls' = <<Call("clear_console", "", "")>>
  /\ UNCHANGED <<inflight, counters, caller, startup, raw_line, user_input, equipLocals, joinLocals, loopExit,
                 error>>

\* ------------------------------------------------- handle_cosmetic_command
\* Line 135 testing the identifier only.
EquipConditionIdOnly(id, p) == Truthy(id)

\* Line 135 testing the session as it was when the handler was entered.
EquipConditionAtEntry(id, p) == Truthy(id) /\ party_at_entry

\* Line 135: "if cosmetic_id and self.bot_instance.party".
EquipCondition(id, p) == Truthy(id) /\ p

\* Line 136 taking the mutator of a fixed category.
MethodNameFixed(ctype) == COSMETIC_TYPES["outfit"].method

\* Line 136: the mutator name the registry maps the category to.
MethodName(ctype) == COSMETIC_TYPES[ctype].method

\* Line 82 answered from a cache: no request leaves the program.
RequestsSentCached(n) == n

\* Line 82: one session.get() per call of find_cosmetic_id.
RequestsSent(n) == n + 1

\* Lines 129-133: from the entry to the await of find_cosmetic_id (the
\* request is sent at line 82).
HandleCosmeticCommand(ctype, name, o, c) ==
  /\ cosmetic_type' = ctype
  /\ item_name' = name
  /\ cosmetic_id' = None
  /\ response' = None
  /\ party_at_entry' = party
  /\ IF ~IsCosmeticType(ctype)
     THEN Return(Append(o, Msg("UnknownType", ctype)), c) /\ UNCHANGED counters
     ELSE LET q == FindCosmeticParams(name, ctype) IN
            /\ nEquip' = nEquip + 1
            /\ IF q.raised # ""
               THEN Throw(q.raised, o, c) /\ UNCHANGED nRequests
               ELSE /\ Goto("resolving", o, Append(c, Call("GET", q.name, q.backendType)))
                    /\ nRequests' = RequestsSent(nRequests)
                    /\ UNCHANGED <<loopExit, error>>

\* Lines 82-88 and 133-141: the catalog answers; find_cosmetic_id returns
\* and handle_cosmetic_command runs to the await of the mutator, or to its
\* end.
CatalogReturns(resp) ==
  /\ pc = "resolving"
  /\ response' = Some(resp)
  /\ LET r  == FindCosmeticResult(resp)
         o1 == IF r.logged # "" THEN Append(out, Msg("SearchError", r.logged)) ELSE out
     IN IF r.raised # ""
        THEN /\ Throw(r.raised, o1, calls)
             /\ UNCHANGED cosmetic_id
        ELSE /\ cosmetic_id' = r.value
             /\ IF EquipCondition(r.value, party)
                THEN /\ Goto("mutating", o1,
                             Append(calls, Call(MethodName(cosmetic_type), r.value[1], "")))
                     /\ UNCHANGED <<loopExit, error>>
                ELSE IF r.logged # ""
                THEN ReturnCaught(r.logged, Append(o1, Msg("NotFound", item_name)), calls)
                ELSE Return(Append(o1, Msg("NotFound", item_name)), calls)
  /\ UNCHANGED <<counters, caller, party, startup, raw_line, user_input, cosmetic_type,
                 item_name, party_at_entry, joinLocals>>

\* Lines 138-139: the mutator returns; the success message follows.
MutatorReturns ==
  /\ pc = "mutating"
  /\ Return(Append(out, Msg("Equipped", item_name)), calls)
  /\ UNCHANGED <<counters, caller, party, startup, raw_line, user_input, equipLocals, joinLocals>>

\* The success message logged before the mutator is awaited.
MutatorRaisesLogged ==
  /\ pc = "mutating"
  /\ Throw("PartyError", Append(out, Msg("Equipped", item_name)), calls)
  /\ UNCHANGED <<counters, caller, party, startup, raw_line, user_input, equipLocals, joinLocals>>

\* Line 138: the mutator raises.
MutatorRaises ==
  /\ pc = "mutating"
  /\ Throw("PartyError", out, calls)
  /\ UNCHANGED <<counters, caller, party, startup, raw_line, user_input, equipLocals, joinLocals>>

\* ------------------------------------------------------- handle_party_join
ProfileIds == {"u1", "u2"}

\* Line 155: "except Exception" of handle_party_join.
JoinCaught(e) == IsException(e)

\* An exception raised inside the try block of handle_party_join.
JoinThrow(e, o, c) ==
  IF JoinCaught(e) THEN ReturnCaught(e, Append(o, Msg("JoinError", e)), c)
  ELSE Throw(e, o, c)

\* Lines 144-145: up to the await of fetch_user.
HandlePartyJoin(name, o, c) ==
  /\ username' = name
  /\ user_profile' = None
  /\ friend_connection' = None
  /\ Goto("fetching", o, Append(c, Call("fetch_user", name, "")))
  /\ UNCHANGED <<loopExit, error>>

\* Line 146: "if user_profile".
HasProfile(profile) == profile # None

\* Line 148 joining without a known peer.
IsFriendAlways(friend) == TRUE

\* Line 148: "if friend_connection".
IsFriend(friend) == friend # None

\* Lines 145-154: fetch_user returns profile; get_friend (synchronous)
\* answers friend; the handler runs to the await of join_party or to its
\* end.
FetchReturns(profile, friend) ==
  /\ pc = "fetching"
  /\ user_profile' = profile
  /\ IF HasProfile(profile)
     THEN LET c1 == Append(calls, Call("get_friend", IF profile = None THEN "" ELSE profile[1], ""))
          IN /\ friend_connection' = friend
             /\ IF IsFriend(friend)
                THEN /\ Goto("joining", out,
                             Append(c1, Call("join_party", IF friend = None THEN "" ELSE friend[1], "")))
                     /\ UNCHANGED <<loopExit, error>>
                ELSE Return(Append(out, Msg("NotFriend", username)), c1)
     ELSE /\ friend_connection' = None
          /\ Return(Append(out, Msg("UserNotFound", username)), calls)
  /\ UNCHANGED <<counters, caller, party, startup, raw_line, user_input, equipLocals, username>>

\* Line 145: fetch_user raises.
FetchRaises ==
  /\ pc = "fetching"
  /\ JoinThrow("HTTPException", out, calls)
  /\ UNCHANGED <<counters, caller, party, startup, raw_line, user_input, equipLocals, joinLocals>>

\* Lines 149-150: join_party returns; the success message follows.
JoinReturns ==
  /\ pc = "joining"
  /\ Return(Append(out, Msg("Joined", username)), calls)
  /\ UNCHANGED <<counters, caller, party, startup, raw_line, user_input, equipLocals, joinLocals>>

\* Line 149: join_party raises.
JoinRaises ==
  /\ pc = "joining"
  /\ JoinThrow("PartyError", out, calls)
  /\ UNCHANGED <<counters, caller, party, startup, raw_line, user_input, equipLocals, joinLocals>>

\* ------------------------------------------------------- command_interface
\* Line 159 as a loop that never tests the session.
WhileConditionTrue == TRUE

\* Line 159: "while self.bot_instance.party".
WhileCondition == party

\* Line 159: the guard, evaluated at the top of every iteration.  A new
\* iteration starts with nothing logged and no handler locals.
Guard ==
  /\ pc = "guard"
  /\ caller = "loop"
  /\ IF WhileCondition
     THEN /\ pc' = "read"
          /\ raw_line' = None
          /\ user_input' = <<>>
          /\ out' = <<>>
          /\ calls' = <<>>
          /\ ResetEquip
          /\ ResetJoin
          /\ error' = ""
          /\ UNCHANGED loopExit
     ELSE /\ pc' = AfterLoop
          /\ loopExit' = "guard"
          /\ UNCHANGED <<raw_line, user_input, out, calls, equipLocals, joinLocals,
                         error>>
  /\ UNCHANGED <<inflight, counters, caller, party, startup>>

\* Lines 175-182: the commands that equip, and the literal each branch
\* passes as the category.
EquipCommands == {"outfit", "emote", "backpack", "pickaxe"}

DispatchCategory(primary_command) == primary_command

\* Lines 173-192: the dispatch on the command name, up to the first await
\* of the branch taken.
Dispatch(primary_command, arguments) ==
  IF primary_command \in {"clear", "cls"}
  THEN /\ Goto("guard", <<>>, <<Call("clear_console", "", "")>>)
       /\ ResetEquip /\ ResetJoin /\ UNCHANGED counters /\ UNCHANGED <<loopExit, error>>
  ELSE IF primary_command \in EquipCommands
  THEN /\ HandleCosmeticCommand(DispatchCategory(primary_command), arguments, <<>>, <<>>)
       /\ ResetJoin
  ELSE IF primary_command = "join"
  THEN /\ HandlePartyJoin(arguments, <<>>, <<>>)
       /\ ResetEquip /\ UNCHANGED counters
  ELSE IF primary_command = "leave"
  THEN /\ IF party
          THEN Goto("leaving", <<>>, <<Call("leave", "", "")>>) /\ UNCHANGED <<loopExit, error>>
          ELSE Throw("AttributeError", <<>>, <<>>)
       /\ ResetEquip /\ ResetJoin /\ UNCHANGED counters
  ELSE IF primary_command = "exit"
  THEN /\ Throw("SystemExit", <<>>, <<>>)
       /\ ResetEquip /\ ResetJoin /\ UNCHANGED counters
  ELSE IF primary_command = "help"
  THEN /\ Goto("guard", <<Msg("Help", "")>>, <<>>)
       /\ ResetEquip /\ ResetJoin /\ UNCHANGED counters /\ UNCHANGED <<loopExit, error>>
  ELSE /\ Goto("guard", <<Msg("UnknownCommand", "!" \o primary_command)>>, <<>>)
       /\ ResetEquip /\ ResetJoin /\ UNCHANGED counters /\ UNCHANGED <<loopExit, error>>

\* Line 166: user_input[1:].split()
Parts(u) == Split(Tail(u))

\* Lines 165-170: the command name a stripped line carries ("" if none).
CommandOf(u) ==
  IF StartsWith(u, "!") /\ Parts(u) # <<>> THEN Lower(Parts(u)[1]) ELSE ""

\* Lines 171-184: the argument string a stripped line carries.
ArgumentsOf(u) ==
  IF StartsWith(u, "!") /\ Parts(u) # <<>> THEN JoinSpace(Tail(Parts(u))) ELSE ""

\* Lines 161-194: input() delivers a line; it is stripped, parsed and
\* dispatched.
ReadLine(line) ==
  /\ pc = "read"
  /\ CommandOf(Strip(line)) \in EquipCommands => nEquip < MaxEquips
  /\ raw_line' = Some(line)
  /\ user_input' = Strip(line)
  /\ LET u == Strip(line) IN
       IF u = <<>>
       THEN /\ Goto("guard", <<>>, <<>>)
            /\ ResetEquip /\ ResetJoin /\ UNCHANGED counters /\ UNCHANGED <<loopExit, error>>
       ELSE IF StartsWith(u, "!")
       THEN LET parts == Parts(u) IN
              IF parts = <<>>
              THEN /\ Goto("guard", <<>>, <<>>)
                   /\ ResetEquip /\ ResetJoin /\ UNCHANGED counters /\ UNCHANGED <<loopExit, error>>
              ELSE Dispatch(Lower(parts[1]), JoinSpace(Tail(parts)))
       ELSE /\ Goto("guard", <<Msg("Hint", "")>>, <<>>)
            /\ ResetEquip /\ ResetJoin /\ UNCHANGED counters /\ UNCHANGED <<loopExit, error>>
  /\ UNCHANGED <<caller, party, startup>>

\* Line 161: input() raises an ordinary exception (end of input).
InputRaises ==
  /\ pc = "read"
  /\ Throw("EOFError", out, calls)
  /\ UNCHANGED <<counters, caller, party, startup, raw_line, user_input, equipLocals, joinLocals>>

\* KeyboardInterrupt is raised in the coroutine while it is blocked in
\* input() or suspended in a handler.  No except clause below the loop
\* catches it (lines 86 and 155 are "except Exception").
Interrupt ==
  /\ pc \in {"read"} \cup Awaiting
  /\ caller = "loop"
  /\ Throw("KeyboardInterrupt", out, calls)
  /\ UNCHANGED <<counters, caller, party, startup, raw_line, user_input, equipLocals, joinLocals>>

\* Line 186: leave() returns; the session object decides what
\* bot_instance.party is afterwards.
LeaveReturns(p) ==
  /\ pc = "leaving"
  /\ party' = p
  /\ Return(out, calls)
  /\ UNCHANGED <<counters, caller, startup, raw_line, user_input, equipLocals, joinLocals>>

\* Line 186: leave() raises.
LeaveRaises ==
  /\ pc = "leaving"
  /\ Throw("PartyError", out, calls)
  /\ UNCHANGED <<counters, caller, party, startup, raw_line, user_input, equipLocals, joinLocals>>

\* The session object gains or loses its party on its own while the
\* program is blocked or suspended, or after the loop has ended.
SessionChange ==
  /\ pc \in {"read", "returned"} \cup Awaiting
  /\ party' = ~party
  /\ UNCHANGED <<pc, inflight, counters, caller, startup, raw_line, user_input, equipLocals, joinLocals,
                 out, calls, loopExit, error>>

\* ------------------------------------------------------------ the program
Next ==
  \/ Construct(config_file)
  \/ \E ok \in BOOLEAN : Launch(ok)
  \/ \E p \in BOOLEAN : EventReady(p)
  \/ Guard
  \/ \E line \in Lines : ReadLine(line)
  \/ InputRaises
  \/ Interrupt
  \/ \E resp \in Responses : CatalogReturns(resp)
  \/ MutatorReturns
  \/ MutatorRaises
  \/ \E profile \in {None} \cup {Some(i) : i \in ProfileIds} :
       \E friend \in (IF profile = None THEN {None} ELSE {None, profile}) :
         FetchReturns(profile, friend)
  \/ FetchRaises
  \/ JoinReturns
  \/ JoinRaises
  \/ \E p \in BOOLEAN : LeaveReturns(p)
  \/ LeaveRaises
  \/ SessionChange

Spec == Init /\ [][Next]_vars

\* ------------------------------------- handle_cosmetic_command on its own
\* The handler is a public coroutine: here it is called directly, with any
\* category string, by a caller that is not the command loop.
ItemNames == {"Renegade Raider", "Reaper", ""}

InitEquip ==
  /\ pc = "call_equip"
  /\ caller = "direct"
  /\ party \in BOOLEAN
  /\ command_prefix = "!"
  /\ bot_instance = TRUE
  /\ config_file = [exists |-> TRUE, json |-> TRUE, valid |-> TRUE, prefix |-> "!"]
  /\ raw_line = None
  /\ user_input = <<>>
  /\ party_at_entry = FALSE
  /\ inflight = <<>>
  /\ nEquip = 0 /\ nRequests = 0
  /\ cosmetic_type \in Categories
  /\ item_name \in ItemNames
  /\ cosmetic_id = None
  /\ response = None
  /\ username = "" /\ user_profile = None /\ friend_connection = None
  /\ out = <<>>
  /\ calls = <<>>
  /\ loopExit = ""
  /\ error = ""
  /\ error = ""
  /\ response = None

CallEquip ==
  /\ pc = "call_equip"
  /\ HandleCosmeticCommand(cosmetic_type, item_name, <<>>, <<>>)
  /\ UNCHANGED <<caller, party, startup, raw_line, user_input, joinLocals>>

NextEquip ==
  \/ CallEquip
  \/ \E resp \in Responses : CatalogReturns(resp)
  \/ MutatorReturns
  \/ MutatorRaises
  \/ SessionChange

SpecEquip == InitEquip /\ [][NextEquip]_vars

\* ================================================================ claims
\* Messages that report an exception.
ReportKinds == {"CommandError", "JoinError", "SearchError"}

Reported(e) == \E i \in 1..Len(out) : out[i].kind \in ReportKinds /\ out[i].text = e

MutatorCalls == {i \in 1..Len(calls) : calls[i].op \in Mutators}

\* C1: an ordinary exception raised while a command line is handled is
\* reported and the loop is at its guard again (or has been left through
\* the guard); the process is not terminated.  The loop is only ever left
\* through the guard, by an interrupt, or by the exit command.
C1_Isolation ==
  /\ (caller = "loop" /\ error # "" /\ IsException(error)) =>
       /\ Reported(error)
       /\ pc \in {"guard", "returned"}
       /\ pc = "returned" => loopExit = "guard"
  /\ pc \in {"returned", "terminated"} =>
       \/ pc = "returned" /\ loopExit = "guard"
       \/ pc = "returned" /\ loopExit = "KeyboardInterrupt" /\ error = "KeyboardInterrupt"
       \/ /\ pc = "terminated" /\ loopExit = "SystemExit" /\ error = "SystemExit"
          /\ CommandOf(user_input) = "exit"

\* C1 witness: a mutator raised, the error was reported and the guard of
\* the next iteration is about to pass.
C1_Witness ==
  /\ pc = "guard" /\ party
  /\ error = "PartyError"
  /\ MutatorCalls # {}
  /\ out[Len(out)] = Msg("CommandError", "PartyError")

\* C2: a line is read only right after a guard evaluation that found the
\* session active, and every iteration starts at the guard; a guard that
\* finds no session ends the loop without terminating the process, and
\* after that nothing is read or dispatched.
C2_LoopGuard ==
  [][ /\ (pc' = "read" /\ pc # "read") => (pc = "guard" /\ party)
      /\ (user_input' # user_input) => (pc = "read" \/ (pc = "guard" /\ party))
      /\ (calls' # calls /\ pc \notin Awaiting) =>
            pc \in {"read", "running", "call_equip"} \/ (pc = "guard" /\ party)
      /\ (pc = "guard" /\ caller = "loop" /\ ~party) =>
            (pc' = "returned" /\ loopExit' = "guard")
      /\ (pc = "returned") =>
            (pc' = "returned" /\ UNCHANGED <<raw_line, user_input, calls, out>>)
    ]_vars

\* C2 witness: leave succeeded, the session was gone, the guard ended the
\* loop.
C2_Witness ==
  /\ pc = "returned" /\ loopExit = "guard"
  /\ CommandOf(user_input) = "leave"
  /\ "leave" \in OpsIn(calls)
  /\ error = ""
  /\ ~party

\* C3: a line carrying the exit command terminates the process whatever
\* the session state; it is not reported as a command error; once
\* terminated the program takes no further step.
C3_Exit ==
  [][ /\ (pc = "read" /\ pc' # "read" /\ CommandOf(user_input') = "exit") =>
            /\ pc' = "terminated"
            /\ loopExit' = "SystemExit"
            /\ "CommandError" \notin KindsIn(out')
      /\ pc # "terminated"
    ]_vars

\* C3 witness: exit was read while the session was gone.
C3_Witness ==
  /\ pc = "terminated"
  /\ ~party
  /\ CommandOf(user_input) = "exit"

\* C4: a KeyboardInterrupt raised while the loop reads or handles a
\* command ends the loop with the shutdown notice; it does not leave
\* command_interface (the process is not terminated, the exit path is not
\* taken) and nothing is read or dispatched afterwards.
C4_Interrupt ==
  /\ [](error = "KeyboardInterrupt" =>
          /\ pc = "returned"
          /\ loopExit = "KeyboardInterrupt"
          /\ out # <<>> /\ out[Len(out)] = Msg("Shutdown", ""))
  /\ [][ (pc \in {"read"} \cup Awaiting /\ caller = "loop" /\ pc' \notin {"read"} \cup Awaiting
           /\ error' = "KeyboardInterrupt") =>
             (pc' = "returned" /\ UNCHANGED <<raw_line, user_input, calls>>) ]_vars
  /\ [][ loopExit = "KeyboardInterrupt" =>
           (pc' = "returned" /\ UNCHANGED <<raw_line, user_input, calls, out>>) ]_vars

\* C4 witness: the interrupt arrived while the catalog query was in flight.
C4_Witness ==
  /\ pc = "returned"
  /\ error = "KeyboardInterrupt"
  /\ calls # <<>> /\ calls[Len(calls)].op = "GET"

\* The mutator each supported category is to be applied with.
ExpectedMutator ==
  [outfit |-> "set_outfit", emote |-> "set_emote",
   backpack |-> "set_backpack", pickaxe |-> "set_pickaxe"]

\* C5: when the catalog query of an equip command returns an identifier
\* (a non-empty string) and the session is active, the handler invokes
\* one mutator: the one of the command's category, with the identifier as
\* its argument; no command invokes more than one mutator; when the mutator
\* returns, the success message carries the item name, which is the
\* space-joined arguments of the line.
C5_EquipSuccess ==
  /\ [][ (/\ pc = "resolving" /\ pc' # "resolving"
          /\ cosmetic_type \in DOMAIN ExpectedMutator
          /\ party /\ Truthy(cosmetic_id')) =>
            /\ pc' = "mutating"
            /\ calls' = Append(calls,
                 Call(ExpectedMutator[cosmetic_type], cosmetic_id'[1], ""))
       ]_vars
  /\ [][ (pc = "mutating" /\ pc' # "mutating" /\ error' = "") =>
            /\ out' = Append(out, Msg("Equipped", item_name))
            /\ calls' = calls
       ]_vars
  /\ [](/\ Cardinality(MutatorCalls) <= 1
        /\ \A i \in 1..Len(out) : out[i].kind = "Equipped" =>
             /\ out[i].text = item_name
             /\ MutatorCalls # {}
             /\ caller = "loop" =>
                  /\ item_name = ArgumentsOf(user_input)
                  /\ cosmetic_type = CommandOf(user_input))

\* C5 witness: "!OUTFIT  Renegade<tab>Raider" equipped through set_outfit
\* with the identifier the catalog returned.
C5_Witness ==
  /\ pc = "guard"
  /\ user_input = <<"!", "OUTFIT", Space, Space, "Renegade", Tab, "Raider">>
  /\ cosmetic_id = Some("B2")
  /\ calls[Len(calls)] = Call("set_outfit", "B2", "")
  /\ out = <<Msg("Equipped", "Renegade Raider")>>

\* C6: when the catalog query of an equip command has returned and no
\* session is active, the handler invokes no mutator, ends with the
\* not-found message for the item name, and raises nothing.
C6_EquipNoSession ==
  [][ (pc = "resolving" /\ pc' # "resolving" /\ ~party /\ error' \notin BaseOnly) =>
         /\ pc' \in {"guard", "handler_returned"}
         /\ calls' = calls
         /\ MutatorCalls = {}
         /\ out' # <<>> /\ out'[Len(out')] = Msg("NotFound", item_name)
         /\ "CommandError" \notin KindsIn(out')
    ]_vars

\* C6 witness: an identifier was resolved but the session was gone; the
\* message is the one of a failed resolution.
C6_Witness ==
  /\ pc = "guard"
  /\ ~party
  /\ Truthy(cosmetic_id)
  /\ calls = <<Call("GET", "Renegade Raider", "AthenaCharacter")>>
  /\ out = <<Msg("NotFound", "Renegade Raider")>>

\* C7: called with a category that is not a key of the registry, the equip
\* handler reports "unknown cosmetic type" and returns: no catalog query,
\* no mutator.  Every key of the registry has a non-empty external code and
\* a non-empty mutator name.
C7_UnknownType ==
  /\ \A c \in DOMAIN COSMETIC_TYPES :
       COSMETIC_TYPES[c].api_type # "" /\ COSMETIC_TYPES[c].method # ""
  /\ (pc # "call_equip" /\ cosmetic_type \notin DOMAIN ExpectedMutator) =>
       /\ pc = "handler_returned"
       /\ out = <<Msg("UnknownType", cosmetic_type)>>
       /\ calls = <<>>
       /\ response = None

\* C7 witness: the handler was called with "glider".
C7_Witness ==
  /\ pc = "handler_returned"
  /\ cosmetic_type = "glider"
  /\ out = <<Msg("UnknownType", "glider")>>

\* The catalog's answer, when there is one.
Resp == response[1]

\* C8: for a 200 response whose "data" array has at least one element,
\* find_cosmetic_id returns the id field of element 0.
C8_FirstMatch ==
  (/\ response # None
   /\ ~Resp.transport /\ Resp.status = 200
   /\ Resp.body.decodable /\ Resp.body.hasData
   /\ Len(Resp.body.data) >= 1
   /\ Resp.body.data[1].hasId)
  => cosmetic_id = Resp.body.data[1].id

\* C8 witness: two results with different ids; the first one was returned.
C8_Witness ==
  /\ response # None
  /\ Resp.status = 200
  /\ Len(Resp.body.data) = 2
  /\ Resp.body.data[1].id = Some("A1")
  /\ Resp.body.data[2].id = Some("B2")
  /\ cosmetic_id = Some("A1")

\* The responses on which the resolution fails.
SoftFailure(r) ==
  \/ r.transport
  \/ r.status # 200
  \/ ~r.body.decodable
  \/ ~r.body.hasData
  \/ Len(r.body.data) = 0
  \/ ~r.body.data[1].hasId

\* C9: on a transport failure, a non-200 status, an empty "data" array or a
\* malformed payload, find_cosmetic_id returns None and raises nothing, and
\* the equip handler invokes no mutator.
C9_SoftFailure ==
  (response # None /\ SoftFailure(Resp)) =>
     /\ cosmetic_id = None
     /\ MutatorCalls = {}
     /\ error \in {"", "ClientError", "ContentTypeError", "KeyError", "IndexError"}
     /\ "CommandError" \notin KindsIn(out)
     /\ pc \in {"guard", "returned", "handler_returned"}
     /\ loopExit \in {"", "guard"}
     /\ out # <<>> /\ out[Len(out)] = Msg("NotFound", item_name)

\* C9 witness: a 200 response with an empty "data" array, session active.
C9_Witness ==
  /\ response # None
  /\ Resp.status = 200 /\ Resp.body.hasData /\ Resp.body.data = <<>>
  /\ party
  /\ pc = "guard"
  /\ out = <<Msg("SearchError", "IndexError"), Msg("NotFound", item_name)>>

\* C10: join_party is invoked exactly when fetch_user returned a profile
\* and get_friend returned a friend for it.  Without a profile the handler
\* reports "user not found", does not look the peer up and calls nothing on
\* the session; with a profile that is no friend it reports "not in friends
\* list" and does not join; the success message appears only when
\* join_party returns.
C10_JoinGating ==
  /\ []( /\ ("join_party" \in OpsIn(calls)) <=>
              (user_profile # None /\ friend_connection # None)
         /\ ("get_friend" \in OpsIn(calls)) <=> (user_profile # None)
         /\ ("fetch_user" \in OpsIn(calls) /\ pc # "fetching" /\ error = ""
               /\ user_profile = None) =>
              /\ out = <<Msg("UserNotFound", username)>>
              /\ OpsIn(calls) = {"fetch_user"}
         /\ (user_profile # None /\ friend_connection = None) =>
              /\ out = <<Msg("NotFriend", username)>>
              /\ OpsIn(calls) \cap SessionOps = {}
         /\ caller = "loop" /\ username # "" => username = ArgumentsOf(user_input) )
  /\ [][ ("Joined" \in KindsIn(out') /\ "Joined" \notin KindsIn(out)) =>
            /\ pc = "joining"
            /\ "join_party" \in OpsIn(calls)
            /\ out' = Append(out, Msg("Joined", username)) ]_vars

\* C10 witness: profile found, friend known, join_party returned.
C10_Witness ==
  /\ pc = "guard"
  /\ user_profile = Some("u1") /\ friend_connection = Some("u1")
  /\ calls[Len(calls)] = Call("join_party", "u1", "")
  /\ out = <<Msg("Joined", "ghost_user")>>

\* C11: a non-empty stripped line is parsed and dispatched exactly when it
\* begins with the configured marker (settings.command_prefix); any other
\* non-empty line only produces the hint.
C11_ConfiguredMarker ==
  (user_input # <<>> /\ command_prefix # "") =>
     (StartsWith(user_input, command_prefix) <=> out # <<Msg("Hint", "")>>)

\* Lines that carry no state-changing command: blank, marker only, no
\* marker, unknown names, help, clear and cls.
NoOpLines ==
  { <<>>,
    <<Space, Space, Space>>,
    <<"!">>,
    <<"!", Space, Tab>>,
    <<"hello">>,
    <<"?", "outfit", Space, "Renegade">>,
    <<"!", "glider", Space, "Raider">>,
    <<"!", "dance">>,
    <<"!", "!", "help">>,
    <<"!", "help">>,
    <<"!", Space, "help">>,
    <<"!", "clear">>,
    <<"!", "cls">> }

\* C12: when input() returns a line that carries no state-changing
\* command, the iteration ends at the guard with no exception raised, no
\* catalog query and no call on the session; only the console is touched.
C12_NoOpLines ==
  [][ (raw_line = None /\ raw_line' # None /\ raw_line'[1] \in NoOpLines) =>
        /\ pc' = "guard"
        /\ error' = ""
        /\ OpsIn(calls') \subseteq {"clear_console"}
        /\ KindsIn(out') \subseteq {"Hint", "Help", "UnknownCommand"}
        /\ response' = None /\ cosmetic_id' = None /\ user_profile' = None
        /\ UNCHANGED <<party, loopExit, command_prefix, bot_instance>>
    ]_vars

\* C12 witness: "!!help" is an unknown command; a warning and nothing else.
C12_Witness ==
  /\ pc = "guard"
  /\ raw_line = Some(<<"!", "!", "help">>)
  /\ out = <<Msg("UnknownCommand", "!!help")>>
  /\ calls = <<>>
  /\ error = ""

\* Awaited calls in flight that are session mutators.
MutatorsInFlight == {i \in 1..Len(inflight) : inflight[i].op \in Mutators}

\* C13: at most one awaited call is outstanding at any time (so never two
\* mutator calls); nothing is outstanding at the guard or while input() is
\* blocked; input() returns a line only when the previous command's calls
\* have all completed.
C13_OneAtATime ==
  /\ [](/\ Len(inflight) <= 1
        /\ Cardinality(MutatorsInFlight) <= 1
        /\ pc \in {"guard", "read"} => inflight = <<>>
        /\ pc \in Awaiting => (inflight # <<>> /\ inflight[1] = calls[Len(calls)]))
  /\ [][ (raw_line' # raw_line /\ raw_line' # None) =>
           (pc = "read" /\ inflight = <<>>) ]_vars

\* C13 witness: a mutator call is the one call outstanding, after the
\* catalog query of the same command has completed.
C13_Witness ==
  /\ pc = "mutating"
  /\ inflight = <<Call("set_emote", "A1", "")>>
  /\ calls = <<Call("GET", "Floss", "AthenaDance"), Call("set_emote", "A1", "")>>
  /\ response # None

\* Positions inside command_interface.
LoopPcs == {"guard", "read", "returned", "terminated"} \cup Awaiting

\* C14: the command loop is entered only by the ready callback (from
\* bot.run(), with the banner of on_ready printed); before that no line
\* has been read and no command dispatched.
C14_LoopAfterReady ==
  /\ [](pc \notin LoopPcs =>
          /\ raw_line = None /\ user_input = <<>>
          /\ calls = <<>> /\ inflight = <<>>
          /\ nEquip = 0)
  /\ [][ (pc \notin LoopPcs /\ pc' \in LoopPcs) =>
           /\ pc = "running"
           /\ pc' = "guard"
           /\ out' = <<Msg("Online", "")>>
           /\ raw_line' = None ]_vars

\* C14 witness: the first line is being dispatched after the ready
\* callback found the session active.
C14_Witness ==
  /\ pc = "fetching"
  /\ raw_line = Some(<<"!", "join", Space, "ghost_user">>)
  /\ party
  /\ bot_instance

GetCalls == {i \in 1..Len(calls) : calls[i].op = "GET"}

\* C15: every call of find_cosmetic_id sends exactly one request: the two
\* counts agree at all times, a command sends at most one request, and
\* nothing is sent again while or after a request is answered.
C15_OneRequestPerCall ==
  /\ [](nRequests = nEquip /\ Cardinality(GetCalls) <= 1)
  /\ [][ /\ nEquip' # nEquip =>
              /\ nEquip' = nEquip + 1
              /\ nRequests' = nRequests + 1
              /\ calls' = Append(IF caller = "loop" THEN <<>> ELSE calls,
                                 Call("GET", item_name', COSMETIC_TYPES[cosmetic_type'].api_type))
         /\ pc \in Awaiting => (nRequests' = nRequests /\ GetCalls' \subseteq GetCalls)
     ]_vars

\* C15 witness: the second equip command has sent the second request.
C15_Witness ==
  /\ nEquip = 2
  /\ nRequests = 2
  /\ pc = "resolving"
  /\ inflight = <<Call("GET", "Renegade Raider", "AthenaCharacter")>>

\* The configuration file cannot be loaded.
BadConfig == ~(config_file.exists /\ config_file.json /\ config_file.valid)

\* C16: with a configuration file that is absent, is not valid JSON or
\* fails validation, construction raises before the bot object exists:
\* the only step is the one to the crashed state, no session object is
\* created, launch and the command loop are never reached, and the crashed
\* process takes no further step.
C16_FatalStartup ==
  /\ [](BadConfig =>
          /\ pc \in {"start", "crashed"}
          /\ ~bot_instance /\ ~party
          /\ command_prefix = ""
          /\ raw_line = None /\ calls = <<>> /\ nEquip = 0)
  /\ [](pc = "crashed" =>
          /\ BadConfig
          /\ out = <<Msg("Traceback", IF config_file.exists THEN "ValueError"
                                      ELSE "FileNotFoundError")>>)
  /\ [][pc # "crashed"]_vars

\* C16 witness: the file exists but is not valid JSON; the process crashed
\* with the ValueError of load_configuration.
C16_Witness ==
  /\ pc = "crashed"
  /\ config_file.exists /\ ~config_file.json
  /\ out = <<Msg("Traceback", "ValueError")>>
  /\ ~bot_instance

\* C17: once command_interface has returned, through its guard or by an
\* interrupt, the loop stays left: no line is read, nothing is dispatched
\* or printed, whatever the session does afterwards.
C17_NotResumed ==
  /\ [](loopExit \in {"guard", "KeyboardInterrupt"} => pc = "returned")
  /\ [][ (loopExit \in {"guard", "KeyboardInterrupt"}) =>
           (UNCHANGED <<pc, loopExit, raw_line, user_input, calls, out, inflight,
                        counters, error>>) ]_vars

\* C17 witness: the guard ended the loop and the session is active again.
C17_Witness ==
  /\ pc = "returned"
  /\ loopExit = "guard"
  /\ party
  /\ raw_line # None

\* C18: when the session ends while the catalog query is in flight, the
\* handler invokes no mutator and reports not-found; a mutator is invoked
\* only by the step in which the query returns and the session is active at
\* that moment.
C18_SessionLoss ==
  [][ /\ (/\ pc = "resolving" /\ pc' # "resolving"
          /\ party_at_entry /\ ~party
          /\ error' \notin BaseOnly) =>
            /\ pc' \in {"guard", "handler_returned"}
            /\ MutatorCalls' = {}
            /\ out'[Len(out')] = Msg("NotFound", item_name)
      /\ (MutatorCalls' # {} /\ MutatorCalls = {}) =>
            /\ pc = "resolving" /\ pc' = "mutating"
            /\ party /\ party'
            /\ response' # None
            /\ cosmetic_id' # None
    ]_vars

\* C18 witness: the session was active when the emote command was entered,
\* it ended before the catalog returned "A1", and not-found was reported.
C18_Witness ==
  /\ pc = "guard"
  /\ party_at_entry /\ ~party
  /\ cosmetic_type = "emote"
  /\ cosmetic_id = Some("A1")
  /\ calls = <<Call("GET", "Floss", "AthenaDance")>>
  /\ out = <<Msg("NotFound", "Floss")>>

\* The first result of a 200 response carries the empty string or JSON
\* null as its id.
EmptyIdReturned ==
  /\ response # None
  /\ ~SoftFailure(Resp)
  /\ Resp.body.data[1].id \in {None, Some("")}

\* C19: no mutator call carries an empty identifier; a first result whose
\* id is the empty string or null is treated as not found: no mutator, the
\* not-found message, no error, even with an active session.
C19_NoEmptyId ==
  /\ \A i \in MutatorCalls : calls[i].arg # ""
  /\ pc = "mutating" => (cosmetic_id # None /\ cosmetic_id[1] # "")
  /\ EmptyIdReturned =>
       /\ cosmetic_id = Resp.body.data[1].id
       /\ MutatorCalls = {}
       /\ error = ""
       /\ out = <<Msg("NotFound", item_name)>>
       /\ pc \in {"guard", "returned", "handler_returned"}

\* C19 witness: the catalog answered with the empty identifier while the
\* session was active.
C19_Witness ==
  /\ EmptyIdReturned
  /\ party
  /\ pc = "guard"
  /\ cosmetic_id = Some("")
  /\ out = <<Msg("NotFound", "Floss")>>

\* C20: the success message is appended only by the step in which the
\* mutator returns; when the mutator raises, the command logs no success
\* message, the loop reports a command error and is at its guard again.
C20_SuccessAfterMutator ==
  /\ []((error = "PartyError" /\ MutatorCalls # {}) =>
          /\ "Equipped" \notin KindsIn(out)
          /\ caller = "loop" =>
               /\ out[Len(out)] = Msg("CommandError", "PartyError")
               /\ pc \in {"guard", "returned"}
               /\ pc = "returned" => loopExit = "guard")
  /\ [][ /\ ("Equipped" \in KindsIn(out') /\ "Equipped" \notin KindsIn(out)) =>
              (pc = "mutating" /\ error' = "")
         /\ (pc = "mutating" /\ error' = "PartyError" /\ caller = "loop") =>
              /\ pc' = "guard"
              /\ out' = Append(out, Msg("CommandError", "PartyError"))
     ]_vars

\* C20 witness: set_pickaxe raised; one command error, no success message,
\* the guard of the next iteration is about to pass.
C20_Witness ==
  /\ pc = "guard" /\ party
  /\ cosmetic_type = "pickaxe"
  /\ error = "PartyError"
  /\ calls[Len(calls)].op = "set_pickaxe"
  /\ out = <<Msg("CommandError", "PartyError")>>

====
